---- MODULE Spec2Model ----
(***************************************************************************)
(* State-machine model of the prien-charger status service:                *)
(*   - GET /api/charger            (src/src/app/api/charger/route.ts)      *)
(*   - POST/GET /api/update-status (src/src/app/api/update-status/route.ts)*)
(*   - getChargerData / updateChargerStatus (src/src/lib/charger-data.ts)  *)
(* Time is in milliseconds (Date.now()).  An ISO timestamp string is kept  *)
(* as the millisecond count it encodes; toLocaleTimeString() keeps only    *)
(* the second of the day.                                                  *)
(***************************************************************************)
EXTENDS Integers, Sequences, FiniteSets, TLC

\* ------------------------------------------------------------------ bounds
\* MaxOps: operations started that change a store (reads through the charger
\* route and accepted status writes); MaxTicks: clock steps; MaxInflight:
\* GET /api/charger requests in flight at once.
MaxOps == 3
MaxTicks == 1
MaxInflight == 2

\* Clock increments offered to the environment (ms): one millisecond short of
\* the cache lifetime, and the cache lifetime, so that ages 29999 and 30000 occur.
TickSteps == {29999, 30000}

\* ------------------------------------------------------------- basic values
Nil == [nil |-> TRUE]

\* Charger ids used as inputs: one registry id and one id outside the registry.
KnownId == "DE*MDS*E006234"
OtherId == "DE*XYZ*E7"
Ids == {KnownId, OtherId}

\* The characters of an id, in order (String.prototype.split('')).
Chars(id) ==
  CASE id = "DE*MDS*E006234" -> <<"D","E","*","M","D","S","*","E","0","0","6","2","3","4">>
    [] id = "DE*MDS*E006198" -> <<"D","E","*","M","D","S","*","E","0","0","6","1","9","8">>
    [] id = "DE*PRI*E000001" -> <<"D","E","*","P","R","I","*","E","0","0","0","0","0","1">>
    [] id = "DE*PRI*E000002" -> <<"D","E","*","P","R","I","*","E","0","0","0","0","0","2">>
    [] id = "DE*XYZ*E7"      -> <<"D","E","*","X","Y","Z","*","E","7">>

\* String.prototype.charCodeAt(0) for the characters that occur in ids.
CharCode(c) ==
  CASE c = "*" -> 42
    [] c = "0" -> 48 [] c = "1" -> 49 [] c = "2" -> 50 [] c = "3" -> 51
    [] c = "4" -> 52 [] c = "5" -> 53 [] c = "6" -> 54 [] c = "7" -> 55
    [] c = "8" -> 56 [] c = "9" -> 57
    [] c = "D" -> 68 [] c = "E" -> 69 [] c = "I" -> 73 [] c = "M" -> 77
    [] c = "P" -> 80 [] c = "R" -> 82 [] c = "S" -> 83 [] c = "X" -> 88
    [] c = "Y" -> 89 [] c = "Z" -> 90

\* evseId.split("*").pop() || ""
LastSegment(id) ==
  CASE id = "DE*MDS*E006234" -> "E006234"
    [] id = "DE*MDS*E006198" -> "E006198"
    [] id = "DE*PRI*E000001" -> "E000001"
    [] id = "DE*PRI*E000002" -> "E000002"
    [] id = "DE*XYZ*E7"      -> "E7"

\* ------------------------------------------------- charger route: constants
CACHE_DURATION == 30 * 1000

OPERATOR_NAME == "AUG. PRIEN Bauunternehmung (GmbH & Co. KG)"

CHARGER_DATA ==
  [i \in {"DE*MDS*E006234", "DE*MDS*E006198", "DE*PRI*E000001", "DE*PRI*E000002"} |->
    CASE i = "DE*MDS*E006234" ->
           [id |-> i, location |-> "Ladestation 1", steckertyp |-> "Typ 2",
            leistung |-> "22 kW", preis |-> "0,49 €/kWh",
            address |-> "Prien am Chiemsee, 83209"]
      [] i = "DE*MDS*E006198" ->
           [id |-> i, location |-> "Ladestation 2", steckertyp |-> "Typ 2",
            leistung |-> "22 kW", preis |-> "0,49 €/kWh",
            address |-> "Prien am Chiemsee, 83209"]
      [] i = "DE*PRI*E000001" ->
           [id |-> i, location |-> "Ladestation 3", steckertyp |-> "CCS",
            leistung |-> "50 kW", preis |-> "0,59 €/kWh",
            address |-> "Prien am Chiemsee, 83209"]
      [] i = "DE*PRI*E000002" ->
           [id |-> i, location |-> "Ladestation 4", steckertyp |-> "CCS",
            leistung |-> "50 kW", preis |-> "0,59 €/kWh",
            address |-> "Prien am Chiemsee, 83209"]]

\* The canonical status enum of the record (spec section 3) and the list the
\* write endpoint accepts.
CanonicalStatuses == {"available", "charging", "maintenance", "error", "unknown"}
validStatuses == {"available", "charging", "error", "maintenance"}

RECURSIVE SumCodes(_)
SumCodes(cs) == IF cs = <<>> THEN 0 ELSE CharCode(Head(cs)) + SumCodes(Tail(cs))

\* Mutant of getStatusForCharger: the hash is used for every id.
getStatusForChargerHashOnly(chargerId) ==
  LET hash == SumCodes(Chars(chargerId))
      statuses == <<"available", "charging", "maintenance", "error">>
  IN  statuses[(hash % Len(statuses)) + 1]

getStatusForCharger(chargerId) ==
  IF chargerId = "DE*MDS*E006234" THEN "maintenance"
  ELSE IF chargerId \in {"DE*MDS*E006198", "DE*PRI*E000001", "DE*PRI*E000002"}
       THEN "available"
  ELSE LET hash == SumCodes(Chars(chargerId))
           statuses == <<"available", "charging", "maintenance", "error">>
       IN  statuses[(hash % Len(statuses)) + 1]

getStatusText(status) ==
  CASE status = "available"   -> "Verfügbar"
    [] status = "charging"    -> "Besetzt"
    [] status = "maintenance" -> "Wartung"
    [] status = "error"       -> "Fehler"
    [] OTHER                  -> "Unbekannt"

\* Mutant of ChargerInfoOf: the default label is built from the last segment.
ChargerInfoOfSegment(evseId) ==
  IF evseId \in DOMAIN CHARGER_DATA THEN CHARGER_DATA[evseId]
  ELSE [id |-> evseId, location |-> "Charger " \o LastSegment(evseId),
        steckertyp |-> "Typ 2", leistung |-> "22 kW", preis |-> "0,49 €/kWh",
        address |-> "Prien am Chiemsee, 83209"]

\* Registry record of an id, or the defaults synthesised for an unknown id.
ChargerInfoOf(evseId) ==
  IF evseId \in DOMAIN CHARGER_DATA THEN CHARGER_DATA[evseId]
  ELSE [id |-> evseId, location |-> "Charger " \o evseId, steckertyp |-> "Typ 2",
        leistung |-> "22 kW", preis |-> "0,49 €/kWh",
        address |-> "Prien am Chiemsee, 83209"]

\* ------------------------------------------------ charger route: extraction
\* Pages the operator's site may serve.  badge is the first element matching
\* span.badge.rounded-pill (found = FALSE when there is none); className is the
\* set of class tokens of the badge, which always holds the two tokens of the
\* selector; priceTexts are the texts of the candidate price elements in scan
\* order.
BadgeBase == {"badge", "rounded-pill"}
NoBadge == [found |-> FALSE, text |-> "", className |-> {}]
Badge(text, tokens) == [found |-> TRUE, text |-> text, className |-> BadgeBase \cup tokens]

\* Badge texts (the last one holds no keyword, "" is a badge without text) and
\* the colour tokens a badge carries besides its base classes.
BadgeTexts ==
  {"Verfügbar", "Besetzt", "BESETZT", "Wartung", "Fehler", "Occupied", "Free", "Bereit", ""}
BadgeClasses ==
  { {}, {"bg-success"}, {"bg-warning"}, {"bg-danger"}, {"bg-secondary"}, {"bg-primary"},
    {"bg-info"}, {"bg-success", "bg-secondary"}, {"bg-warning", "bg-danger"} }

Badges == {NoBadge} \cup { Badge(text, tokens) : text \in BadgeTexts, tokens \in BadgeClasses }

PriceLists ==
  { <<>>, <<"Tarif", "0,55 €/kWh">>, <<"Tarif">>, <<"0,60 €/kWh", "0,55 €/kWh">>,
    <<"", "Tarif", "0,55 €/kWh", "0,60 €/kWh">> }

Pages == [badge : Badges, priceTexts : PriceLists]

\* text.includes('€') on the price texts above.
HasEuro(text) == text \in {"0,55 €/kWh", "0,60 €/kWh", "0,49 €/kWh", "0,59 €/kWh"}

\* text.toLowerCase() on the badge texts above.
toLowerCase(text) ==
  CASE text = "Verfügbar" -> "verfügbar"
    [] text = "Besetzt"   -> "besetzt"
    [] text = "BESETZT"   -> "besetzt"
    [] text = "Wartung"   -> "wartung"
    [] text = "Fehler"    -> "fehler"
    [] text = "Occupied"  -> "occupied"
    [] text = "Free"      -> "free"
    [] text = "Bereit"    -> "bereit"
    [] OTHER              -> text

\* text.toLowerCase().includes(kw): the lowered badge texts are single words,
\* none a substring of another, so a keyword is included when it is the text.
LowerIncludes(text, kw) == text # "" /\ toLowerCase(text) = kw

\* className.includes(token)
ClassIncludes(className, token) == token \in className

RECURSIVE FilterEuro(_)
FilterEuro(texts) ==
  IF texts = <<>> THEN <<>>
  ELSE IF Head(texts) # "" /\ HasEuro(Head(texts))
       THEN <<Head(texts)>> \o FilterEuro(Tail(texts))
       ELSE FilterEuro(Tail(texts))

\* page.evaluate(...): hasText/hasClass stand for the values being non-null.
Evaluate(page) ==
  [hasText    |-> page.badge.found,
   statusText |-> page.badge.text,
   hasClass   |-> page.badge.found,
   statusClass |-> page.badge.className,
   prices     |-> FilterEuro(page.priceTexts)]

\* Mutant of ClassStatus: bg-danger is tested before bg-warning.
ClassStatusDangerFirst(statusClass, statusText) ==
  IF ClassIncludes(statusClass, "bg-success") THEN "available"
  ELSE IF ClassIncludes(statusClass, "bg-danger") THEN "error"
  ELSE IF ClassIncludes(statusClass, "bg-warning") THEN "maintenance"
  ELSE IF ClassIncludes(statusClass, "bg-secondary") \/ LowerIncludes(statusText, "besetzt")
       THEN "charging"
  ELSE "unknown"

\* getBadgeStatusMap of the route variant that maps the badge in a helper.
getBadgeStatusMap(badgeClass, statusText) ==
  IF ClassIncludes(badgeClass, "bg-success") THEN "available"
  ELSE IF ClassIncludes(badgeClass, "bg-warning") THEN "maintenance"
  ELSE IF ClassIncludes(badgeClass, "bg-danger") THEN "error"
  ELSE IF ClassIncludes(badgeClass, "bg-secondary") \/ LowerIncludes(statusText, "besetzt")
       THEN "charging"
  ELSE "unknown"

\* Status and statusText derived from the extracted badge.
ClassStatus(statusClass, statusText) ==
  IF ClassIncludes(statusClass, "bg-success") THEN "available"
  ELSE IF ClassIncludes(statusClass, "bg-warning") THEN "maintenance"
  ELSE IF ClassIncludes(statusClass, "bg-danger") THEN "error"
  ELSE IF ClassIncludes(statusClass, "bg-secondary") \/ LowerIncludes(statusText, "besetzt")
       THEN "charging"
  ELSE "unknown"

TextStatus(statusText) ==
  IF LowerIncludes(statusText, "available") \/ LowerIncludes(statusText, "verfügbar")
    THEN "available"
  ELSE IF LowerIncludes(statusText, "maintenance") \/ LowerIncludes(statusText, "wartung")
    THEN "maintenance"
  ELSE IF LowerIncludes(statusText, "error") \/ LowerIncludes(statusText, "fehler")
    THEN "error"
  ELSE IF LowerIncludes(statusText, "charging") \/ LowerIncludes(statusText, "besetzt")
    THEN "charging"
  ELSE "unknown"

BadgeStatus(ed) ==
  IF ed.hasText /\ ed.statusText # ""
  THEN [status |-> IF ed.hasClass /\ ed.statusClass # {}
                   THEN ClassStatus(ed.statusClass, ed.statusText)
                   ELSE TextStatus(ed.statusText),
        statusText |-> ed.statusText]
  ELSE [status |-> "unknown", statusText |-> ""]

ExtractStatus(ed, evseId) ==
  LET b == BadgeStatus(ed)
  IN  IF b.status = "unknown"
      THEN [status |-> getStatusForCharger(evseId),
            statusText |-> getStatusText(getStatusForCharger(evseId))]
      ELSE b

\* Mutant of FinalPrice: the last price found is used.
FinalPriceLast(ed, chargerData) ==
  LET priceValue == IF Len(ed.prices) > 0 THEN ed.prices[Len(ed.prices)] ELSE ""
  IN  IF priceValue # "" THEN priceValue ELSE chargerData.preis

FinalPrice(ed, chargerData) ==
  LET priceValue == IF Len(ed.prices) > 0 THEN ed.prices[1] ELSE ""
  IN  IF priceValue # "" THEN priceValue ELSE chargerData.preis

\* ------------------------------------------------- charger route: responses
\* The record built on Vercel, without any page fetch.
VercelResponse(evseId, t) ==
  LET chargerData == ChargerInfoOf(evseId)
      status == getStatusForCharger(evseId)
  IN  [evseId |-> evseId, status |-> status, location |-> chargerData.location,
       operator |-> OPERATOR_NAME, address |-> chargerData.address,
       plugType |-> chargerData.steckertyp, power |-> chargerData.leistung,
       steckertyp |-> chargerData.steckertyp, leistung |-> chargerData.leistung,
       preis |-> chargerData.preis, lastUpdated |-> t, isRealTime |-> TRUE,
       statusText |-> getStatusText(status)]

\* The record built after a successful page evaluation.
ScrapeResponse(evseId, ed, t) ==
  LET chargerData == ChargerInfoOf(evseId)
      st == ExtractStatus(ed, evseId)
  IN  [evseId |-> evseId, status |-> st.status, location |-> chargerData.location,
       operator |-> OPERATOR_NAME, address |-> chargerData.address,
       plugType |-> chargerData.steckertyp, power |-> chargerData.leistung,
       steckertyp |-> chargerData.steckertyp, leistung |-> chargerData.leistung,
       preis |-> FinalPrice(ed, chargerData), lastUpdated |-> t, isRealTime |-> TRUE,
       statusText |-> st.statusText]

\* CHARGER_DATA[evseId]?.field || dflt
RegistryOr(evseId, field, dflt) ==
  IF evseId \in DOMAIN CHARGER_DATA /\ CHARGER_DATA[evseId][field] # ""
  THEN CHARGER_DATA[evseId][field] ELSE dflt

\* The record built in the catch block of GET.
DefaultResponse(evseId, t, errorMessage) ==
  LET status == getStatusForCharger(evseId)
  IN  [evseId |-> evseId, status |-> status,
       location |-> RegistryOr(evseId, "location", "Charger " \o evseId),
       operator |-> OPERATOR_NAME,
       address |-> RegistryOr(evseId, "address", "Prien am Chiemsee, 83209"),
       plugType |-> RegistryOr(evseId, "steckertyp", "Typ 2"),
       power |-> RegistryOr(evseId, "leistung", "22 kW"),
       steckertyp |-> RegistryOr(evseId, "steckertyp", "Typ 2"),
       leistung |-> RegistryOr(evseId, "leistung", "22 kW"),
       preis |-> RegistryOr(evseId, "preis", "0,49 €/kWh"),
       lastUpdated |-> t, isRealTime |-> TRUE,
       statusText |-> getStatusText(status), errorDetail |-> errorMessage]

\* -------------------------------------------------- update-status route
\* Mutant of UpdatedData: the record carries a fixed status, not the requested one.
UpdatedDataFixedStatus(evseId, status, t) ==
  [evseId |-> evseId, status |-> "available", location |-> "Charger " \o evseId,
   operator |-> OPERATOR_NAME, address |-> "Dampfschiffweg 2, 21079 Hamburg",
   plugType |-> "Type 2 (Mennekes) (max. 22 kW)", power |-> "22 kW",
   lastUpdated |-> t, isRealTime |-> TRUE, manuallyUpdated |-> TRUE]

\* The record POST /api/update-status builds, stores in its own cache and returns.
UpdatedData(evseId, status, t) ==
  [evseId |-> evseId, status |-> status, location |-> "Charger " \o evseId,
   operator |-> OPERATOR_NAME, address |-> "Dampfschiffweg 2, 21079 Hamburg",
   plugType |-> "Type 2 (Mennekes) (max. 22 kW)", power |-> "22 kW",
   lastUpdated |-> t, isRealTime |-> TRUE, manuallyUpdated |-> TRUE]

\* The record GET /api/update-status returns when its cache has no entry.
DefaultStatusData(evseId, t) ==
  [evseId |-> evseId, status |-> "available", location |-> "Charger " \o evseId,
   operator |-> OPERATOR_NAME, address |-> "Dampfschiffweg 2, 21079 Hamburg",
   plugType |-> "Type 2 (Mennekes) (max. 22 kW)", power |-> "22 kW",
   lastUpdated |-> t, isRealTime |-> FALSE]

\* { ...record, name: value }
With(record, name, value) ==
  [f \in DOMAIN record \cup {name} |-> IF f = name THEN value ELSE record[f]]

\* ---------------------------------------------------- charger-info route
\* The registry of the charger-info route.
CHARGER_INFO_DATA ==
  [i \in {"DE*MDS*E006234", "DE*MDS*E006198"} |-> CHARGER_DATA[i]]

\* The HTML of the second upstream response: whether it contains the two
\* marker strings, and its .badge.rounded-pill elements in document order.
InfoBadges ==
  { Badge("Verfügbar", {"bg-success"}), Badge("Besetzt", {"bg-secondary"}),
    Badge("Wartung", {}), Badge("Bereit", {}) }
InfoBadgeLists ==
  {<<>>} \cup { <<b>> : b \in InfoBadges }
    \cup { <<Badge("Verfügbar", {"bg-success"}), Badge("Besetzt", {"bg-secondary"})>>,
           <<Badge("Besetzt", {"bg-secondary"}), Badge("Verfügbar", {"bg-success"})>>,
           <<Badge("Verfügbar", {"bg-success"}), Badge("Bereit", {})>> }
InfoHtmls == [adhoc : BOOLEAN, prien : BOOLEAN, badges : InfoBadgeLists]
NoHtml == [adhoc |-> FALSE, prien |-> FALSE, badges |-> <<>>]

\* What the upstream site does to one request of the handler.
InfoUpstreams ==
  { [kind |-> k, html |-> NoHtml] :
      k \in {"initialThrows", "initialNotOk", "secondThrows", "secondNotOk", "cheerioThrows"} }
    \cup { [kind |-> "html", html |-> h] : h \in InfoHtmls }

\* The status one badge sets in the statusBadges.each loop, "" when it sets none.
InfoBadgeStatus(badge) ==
  LET text == badge.text
      className == badge.className
  IN  IF ClassIncludes(className, "bg-success") \/ LowerIncludes(text, "available")
         \/ LowerIncludes(text, "verfügbar") THEN "available"
      ELSE IF ClassIncludes(className, "bg-warning") \/ LowerIncludes(text, "maintenance")
         \/ LowerIncludes(text, "wartung") THEN "maintenance"
      ELSE IF ClassIncludes(className, "bg-danger") \/ LowerIncludes(text, "error")
         \/ LowerIncludes(text, "fehler") THEN "error"
      ELSE IF ClassIncludes(className, "bg-secondary") \/ LowerIncludes(text, "charging")
         \/ LowerIncludes(text, "besetzt") THEN "charging"
      ELSE ""

\* statusBadges.each: every badge that matches overwrites the status.
RECURSIVE InfoScan(_, _)
InfoScan(badges, status) ==
  IF badges = <<>> THEN status
  ELSE InfoScan(Tail(badges),
                IF InfoBadgeStatus(Head(badges)) # "" THEN InfoBadgeStatus(Head(badges))
                ELSE status)

\* The descriptive fields every 200 record of the route carries.
InfoRecord(evseId, status, t) ==
  LET chargerData == CHARGER_INFO_DATA[evseId]
  IN  [evseId |-> evseId, location |-> chargerData.location, operator |-> OPERATOR_NAME,
       address |-> chargerData.address, plugType |-> chargerData.steckertyp,
       power |-> chargerData.leistung, price |-> chargerData.preis,
       status |-> status, statusText |-> getStatusText(status), lastUpdated |-> t]

\* The catch block of the route.
InfoCatch(evseId, message, t) ==
  IF evseId \in DOMAIN CHARGER_INFO_DATA
  THEN [http |-> 200,
        body |-> With(With(InfoRecord(evseId, "unknown", t), "isSimulated", TRUE),
                      "error", message)]
  ELSE [http |-> 500,
        body |-> [error |-> "Failed to fetch charger info", message |-> message,
                  evseId |-> evseId]]

\* The response of GET /api/charger-info?evseId=... when the upstream behaves
\* as up.
ChargerInfoResponse(evseId, up, t) ==
  IF evseId = ""
    THEN [http |-> 400, body |-> [error |-> "Missing evseId parameter"]]
  ELSE IF evseId \notin DOMAIN CHARGER_INFO_DATA
    THEN InfoCatch(evseId, "No data found for charger " \o evseId, t)
  ELSE IF up.kind \in {"initialThrows", "secondThrows"}
    THEN InfoCatch(evseId, "fetch failed", t)
  ELSE IF up.kind = "initialNotOk"
    THEN [http |-> 502,
          body |-> [error |-> "Failed to fetch initial page: Service Unavailable",
                    status |-> 503, evseId |-> evseId]]
  ELSE IF up.kind = "secondNotOk"
    THEN [http |-> 502,
          body |-> [error |-> "Failed to fetch charger data: Service Unavailable",
                    status |-> 503, evseId |-> evseId]]
  ELSE IF up.kind = "html" /\ up.html.adhoc /\ ~up.html.prien
    THEN [http |-> 200,
          body |-> With(With(InfoRecord(evseId, "unknown", t), "isSimulated", TRUE),
                        "message",
                        "Using local data because the website requires JavaScript rendering")]
  ELSE IF up.kind = "cheerioThrows"
    THEN InfoCatch(evseId, "Cannot find module 'cheerio'", t)
  ELSE [http |-> 200,
        body |-> With(InfoRecord(evseId, InfoScan(up.html.badges, "unknown"), t),
                      "isSimulated", FALSE)]

\* Whether the handler issued an upstream request.
InfoFetched(evseId) == evseId # "" /\ evseId \in DOMAIN CHARGER_INFO_DATA

\* ------------------------------------------------------- charger-data lib
\* new Date(t).toLocaleTimeString(): the second of the day, the date and the
\* milliseconds are dropped.
toLocaleTimeString(t) == (t \div 1000) % 86400

\* The record getChargerData returns on its success path.
LibSuccess(data, hasManualUpdate, entry) ==
  IF hasManualUpdate
  THEN With(With(With(data, "status", entry.status),
                 "lastUpdated", toLocaleTimeString(entry.lastUpdated)),
            "updatedBy", "user")
  ELSE With(With(data, "lastUpdated", toLocaleTimeString(data.lastUpdated)),
            "updatedBy", "system")

\* Mutant of LibFailure: the catch block does not consult the override.
LibFailureSystemOnly(evseId, errorMessage, entry, t) ==
  [evseId |-> evseId, status |-> "error",
   location |-> "Ladestation " \o LastSegment(evseId), error |-> errorMessage,
   lastUpdated |-> toLocaleTimeString(t), updatedBy |-> "system",
   plugType |-> "Unknown", power |-> "Unknown", price |-> "Unknown",
   operator |-> OPERATOR_NAME, address |-> "Unknown", isRealTime |-> FALSE]

\* The record getChargerData returns from its catch block.
LibFailure(evseId, errorMessage, entry, t) ==
  IF entry # Nil /\ entry.updatedBy = "user"
  THEN [evseId |-> evseId, status |-> entry.status,
        location |-> "Ladestation " \o LastSegment(evseId), error |-> errorMessage,
        lastUpdated |-> toLocaleTimeString(entry.lastUpdated), updatedBy |-> "user",
        plugType |-> "Unknown", power |-> "Unknown", price |-> "Unknown",
        operator |-> "Unknown", address |-> "Unknown", isRealTime |-> FALSE]
  ELSE [evseId |-> evseId, status |-> "error",
        location |-> "Ladestation " \o LastSegment(evseId), error |-> errorMessage,
        lastUpdated |-> toLocaleTimeString(t), updatedBy |-> "system",
        plugType |-> "Unknown", power |-> "Unknown", price |-> "Unknown",
        operator |-> OPERATOR_NAME, address |-> "Unknown", isRealTime |-> FALSE]

\* ------------------------------------------------------------------ state
VARIABLES
  vercel,           \* process.env.VERCEL is set
  now,              \* Date.now()
  ticks,            \* clock steps taken
  nops,             \* reads started and status writes accepted
  cache,            \* charger route: cache, keyed by evseId
  updateCache,      \* update-status route: cache (keyed charger_<evseId>)
  userStatusStore,  \* charger-data lib: userStatusStore
  reqs,             \* GET /api/charger requests in flight, by slot
  last,             \* the response delivered most recently
  home              \* the dashboard component Home of one browser tab

vars == <<vercel, now, ticks, nops, cache, updateCache, userStatusStore, reqs, last, home>>

\* What no route handler changes: the environment flag, the clock and the
\* dashboard.
env == <<vercel, now, ticks, home>>

\* What no step of the dashboard changes.
routes == <<vercel, now, ticks, nops, cache, updateCache, userStatusStore, reqs, last>>

Slots == 1..MaxInflight

\* Pages served to the requests of the state machine.
ServedPages ==
  { [badge |-> NoBadge, priceTexts |-> <<>>],
    [badge |-> Badge("Verfügbar", {"bg-success"}), priceTexts |-> <<"Tarif", "0,55 €/kWh">>] }

\* Statuses offered to updateChargerStatus, which takes any string.
StoreStatuses == {"charging", "bogus"}

\* ------------------------------------------------------ dashboard (page.tsx)
\* The charger ids of the dashboard, in order (lines 11-16).
CHARGER_IDS == <<"DE*MDS*E006234", "DE*MDS*E006198", "DE*PRI*E000001", "DE*PRI*E000002">>

DashIds == { CHARGER_IDS[i] : i \in DOMAIN CHARGER_IDS }

\* The fetchChargers calls that can be in progress at once.
RefreshSlots == 1..MaxInflight

\* The component after useState of the first render (lines 34-37), not yet
\* mounted.  loading, refreshing and chargers are the state of the component;
\* fanouts holds the fetchChargers calls in progress, each with the bypass flag
\* of its requests and the settled result of each request; started counts the
\* calls that issued requests; ev is the latest event of the dashboard.
HomeInit ==
  [mounted |-> FALSE, loading |-> TRUE, refreshing |-> FALSE, chargers |-> <<>>,
   fanouts |-> [s \in RefreshSlots |-> Nil], started |-> 0,
   ev |-> [op |-> "none"]]

\* The state captured by the fetchChargers of the first render, which the
\* effect with the empty dependency list calls at mount and from the interval.
MountClosure == [loading |-> TRUE, refreshing |-> FALSE]

\* The state captured by the fetchChargers of the latest render, which the
\* button calls.
RenderClosure == [loading |-> home.loading, refreshing |-> home.refreshing]

\* Ways a request of the fan-out settles: a 200 response with a record, a
\* non-OK response, a rejected fetch.
Outcomes == {"ok", "notOk", "throws"}

\* Mutant of Placeholder: the placeholder claims to be real-time.
PlaceholderRealTime(evseId, message) ==
  [evseId |-> evseId, status |-> "error", location |-> "Charger " \o evseId,
   operator |-> OPERATOR_NAME, address |-> "Unknown", plugType |-> "Unknown",
   power |-> "Unknown", lastUpdated |-> now, isRealTime |-> TRUE, error |-> message]

\* The record of the inner catch block (lines 63-77).
Placeholder(evseId, message) ==
  [evseId |-> evseId, status |-> "error", location |-> "Charger " \o evseId,
   operator |-> OPERATOR_NAME, address |-> "Unknown", plugType |-> "Unknown",
   power |-> "Unknown", lastUpdated |-> now, isRealTime |-> FALSE, error |-> message]

\* What the callback of CHARGER_IDS.map returns for one id (lines 55-78).
Settled(evseId, outcome) ==
  CASE outcome = "ok"     -> VercelResponse(evseId, now)
    [] outcome = "notOk"  -> Placeholder(evseId, "Failed to fetch charger data: Internal Server Error")
    [] outcome = "throws" -> Placeholder(evseId, "Failed to fetch")

InFlight(h) == { s \in RefreshSlots : h.fanouts[s] # Nil }

\* fetchChargers up to its first await (lines 50-58), as the states of the
\* component it can leave behind: it returns when the refreshing it captured
\* is true; otherwise it sets refreshing and issues one request per id, with
\* bypass=true when the loading it captured is true.
fetchChargers(h, closure, trigger) ==
  IF closure.refreshing
  THEN { [h EXCEPT !.ev = [op |-> "return", trigger |-> trigger,
                           inFlight |-> Cardinality(InFlight(h))]] }
  ELSE { [h EXCEPT
            !.refreshing = TRUE,
            !.started = @ + 1,
            !.fanouts[s] = [seq |-> h.started + 1, trigger |-> trigger,
                            bypass |-> closure.loading,
                            results |-> [id \in DashIds |-> Nil],
                            outcomes |-> [id \in DashIds |-> "pending"]],
            !.ev = [op |-> "start", seq |-> h.started + 1, trigger |-> trigger,
                    bypass |-> closure.loading, loading |-> h.loading,
                    refreshing |-> h.refreshing,
                    inFlight |-> Cardinality(InFlight(h))]] :
         s \in { t \in RefreshSlots : /\ h.started < MaxOps
                                      /\ h.fanouts[t] = Nil
                                      /\ \A u \in RefreshSlots : u < t => h.fanouts[u] # Nil } }

\* The effect of lines 39-48 runs after the first render: it calls
\* fetchChargers and registers the interval.
Mount ==
  /\ ~home.mounted
  /\ home' \in fetchChargers([home EXCEPT !.mounted = TRUE], MountClosure, "mount")
  /\ UNCHANGED routes

\* The interval registered at mount fires (lines 43-45).
TimerTick ==
  /\ home.mounted
  /\ home' \in fetchChargers(home, MountClosure, "timer")
  /\ UNCHANGED routes

\* A click on the button, which is disabled while refreshing (lines 161-163).
ButtonClick ==
  /\ home.mounted
  /\ ~home.refreshing
  /\ home' \in fetchChargers(home, RenderClosure, "button")
  /\ UNCHANGED routes

\* One request of a fan-out settles (lines 56-78).
Settle(s, evseId, outcome) ==
  /\ home.fanouts[s] # Nil
  /\ home.fanouts[s].results[evseId] = Nil
  /\ home' = [home EXCEPT !.fanouts[s].results[evseId] = Settled(evseId, outcome),
                          !.fanouts[s].outcomes[evseId] = outcome]
  /\ UNCHANGED routes

\* Promise.all resolves and the rest of fetchChargers runs (lines 80-88).
Finish(s) ==
  /\ home.fanouts[s] # Nil
  /\ \A id \in DashIds : home.fanouts[s].results[id] # Nil
  /\ LET f == home.fanouts[s]
         results == [i \in DOMAIN CHARGER_IDS |-> f.results[CHARGER_IDS[i]]]
     IN  home' = [home EXCEPT
           !.chargers = results,
           !.loading = FALSE,
           !.refreshing = FALSE,
           !.fanouts[s] = Nil,
           !.ev = [op |-> "end", seq |-> f.seq, slot |-> s, trigger |-> f.trigger,
                   outcomes |-> f.outcomes]]
  /\ UNCHANGED routes

Init ==
  /\ vercel \in BOOLEAN
  /\ now = 0
  /\ ticks = 0
  /\ nops = 0
  /\ cache = [i \in Ids |-> Nil]
  /\ updateCache = [i \in Ids |-> Nil]
  /\ userStatusStore = [i \in Ids |-> Nil]
  /\ reqs = [s \in Slots |-> Nil]
  /\ last = [op |-> "none", seq |-> 0]
  /\ home = HomeInit

\* The clock advances.
Tick(d) ==
  /\ ticks < MaxTicks
  /\ now' = now + d
  /\ ticks' = ticks + 1
  /\ UNCHANGED <<vercel, nops, cache, updateCache, userStatusStore, reqs, last, home>>

\* No GET /api/charger request is in flight.
Idle == \A s \in Slots : reqs[s] = Nil

\* The stores a handler could touch, before and after the step.
Stores == [userStatusStore |-> userStatusStore, updateCache |-> updateCache, cache |-> cache]
StoresAfter ==
  [userStatusStore |-> userStatusStore', updateCache |-> updateCache', cache |-> cache']

\* Mutant of MissingEvseId: the request is answered as if the id were known.
MissingEvseIdServed(route) ==
  last' = [op |-> "GET400", seq |-> nops, route |-> route, http |-> 200,
           body |-> [evseId |-> "", status |-> "unknown"],
           before |-> Stores, after |-> StoresAfter, started |-> reqs' # reqs]

\* The 400 response of a route to a request without evseId.
MissingEvseId(route) ==
  last' = [op |-> "GET400", seq |-> nops, route |-> route, http |-> 400,
           body |-> [error |-> "Missing evseId parameter"],
           before |-> Stores, after |-> StoresAfter, started |-> reqs' # reqs]

\* ------------------------------------------------ GET /api/charger: handler
\* A request as it enters the handler.  client is "http" for a direct request
\* and "lib" for the fetch issued by getChargerData, whose hasManualUpdate is
\* the value read before the fetch.  browser is the state of the browser the
\* request launched ("none" before the launch) and pages the number of pages
\* it opened.  seq numbers the operation; storeAtCall is
\* the override of the id when the request was made; after names the response
\* that was the latest one when the handler started.
NewReq(id, bypass, client, hasManualUpdate) ==
  [id |-> id, bypass |-> bypass, client |-> client, hasManualUpdate |-> hasManualUpdate,
   storeAtCall |-> userStatusStore[id], pc |-> "sent", seq |-> nops + 1, at |-> 0, entryBefore |-> Nil,
   after |-> [op |-> "none", seq |-> 0], browser |-> "none", pages |-> 0,
   pending |-> [ok |-> FALSE, body |-> Nil, error |-> "", extracted |-> Nil, page |-> Nil]]

\* The response a record of last stands for.
Tag(resp) == [op |-> resp.op, seq |-> resp.seq]

\* The lowest free slot.
FreeSlot(s) == reqs[s] = Nil /\ \A t \in Slots : t < s => reqs[t] # Nil

\* Mutant of CacheFresh: an entry aged exactly CACHE_DURATION still counts as fresh.
CacheFreshInclusive(entry, t) == entry # Nil /\ (t - entry.timestamp) <= CACHE_DURATION

\* !bypass && cache[evseId] && (Date.now() - cache[evseId].timestamp) < CACHE_DURATION
CacheFresh(entry, t) == entry # Nil /\ (t - entry.timestamp) < CACHE_DURATION

UseCache(bypass, entry, t) == ~bypass /\ CacheFresh(entry, t)

NetOutcomes == {"ok", "nonOK", "errorBody", "throw"}

\* What getChargerData returns once its fetch has settled with outcome net and,
\* for "ok", with the handler's response get.
LibBody(r, net, get, hasManualUpdate, entry) ==
  CASE net = "ok" ->
         IF "error" \in DOMAIN get.body
         THEN LibFailure(r.id, get.body.error, entry, now)
         ELSE LibSuccess(get.body, hasManualUpdate, entry)
    [] net = "nonOK" -> LibFailure(r.id, "Failed to fetch data: Bad Gateway", entry, now)
    [] net = "errorBody" -> LibFailure(r.id, "upstream error", entry, now)
    [] net = "throw" -> LibFailure(r.id, "Failed to fetch", entry, now)

\* The response of getChargerData; system is what the same call returns on
\* the same fetch outcome when the store holds no override.
LibResult(r, net, get) ==
  LET entry == userStatusStore[r.id]
  IN  [op |-> "lib", seq |-> r.seq, id |-> r.id, net |-> net,
       storeAtCall |-> r.storeAtCall, override |-> entry,
       body |-> LibBody(r, net, get, r.hasManualUpdate, entry),
       system |-> LibBody(r, net, get, FALSE, Nil)]

\* The handler returns body; a direct request is answered, a fetch of
\* getChargerData continues in getChargerData.
Respond(slot, r, path, launched, body) ==
  LET get == [op |-> "GET", seq |-> r.seq, id |-> r.id, bypass |-> r.bypass,
              at |-> r.at, http |-> 200, path |-> path, launched |-> launched,
              body |-> body, entryBefore |-> r.entryBefore, entryAfter |-> cache'[r.id],
              after |-> r.after, extracted |-> r.pending.extracted,
              page |-> r.pending.page, browser |-> r.browser, pages |-> r.pages]
  IN  /\ reqs' = [reqs EXCEPT ![slot] = Nil]
      /\ IF r.client = "http"
         THEN last' = get
         ELSE \E net \in NetOutcomes : last' = LibResult(r, net, get)

\* Lines 94-157: the cache check, the Vercel branch, or the start of scraping.
Handle(slot, r0) ==
  LET r == [r0 EXCEPT !.at = now, !.entryBefore = cache[r0.id], !.after = Tag(last)]
  IN  IF UseCache(r.bypass, cache[r.id], now)
      THEN /\ cache' = cache
           /\ Respond(slot, r, "cache", FALSE, cache[r.id].data)
      ELSE IF vercel
      THEN /\ cache' = [cache EXCEPT ![r.id] =
                          [data |-> VercelResponse(r.id, now), timestamp |-> now]]
           /\ Respond(slot, r, "vercel", FALSE, VercelResponse(r.id, now))
      ELSE /\ cache' = cache
           /\ reqs' = [reqs EXCEPT ![slot] = [r EXCEPT !.pc = "launch"]]
           /\ last' = last

\* The catch block: the fallback record is returned; the cache is not written.
Fallback(slot, r, launched, errorMessage) ==
  /\ cache' = cache
  /\ Respond(slot, r, "fallback", launched, DefaultResponse(r.id, now, errorMessage))

\* A direct GET /api/charger?evseId=id[&bypass=true].
GetCharger(id, bypass) ==
  /\ UNCHANGED <<env, updateCache, userStatusStore>>
  /\ IF id = ""
     THEN /\ UNCHANGED <<nops, cache, reqs>>
          /\ MissingEvseId("charger")
     ELSE /\ nops < MaxOps
          /\ nops' = nops + 1
          /\ \E s \in Slots : FreeSlot(s) /\ Handle(s, NewReq(id, bypass, "http", FALSE))

\* Mutant of HasManualUpdate: an override is honoured only while it is younger than
\* the cache lifetime.
HasManualUpdateFresh(evseId) ==
  /\ userStatusStore[evseId] # Nil
  /\ userStatusStore[evseId].updatedBy = "user"
  /\ now - userStatusStore[evseId].lastUpdated < CACHE_DURATION

\* userStatusStore[evseId]?.updatedBy === "user"
HasManualUpdate(evseId) ==
  userStatusStore[evseId] # Nil /\ userStatusStore[evseId].updatedBy = "user"

\* getChargerData(id) up to its fetch: hasManualUpdate is read, the request leaves.
GetChargerDataCall(id) ==
  /\ nops < MaxOps
  /\ nops' = nops + 1
  /\ \E s \in Slots :
       /\ FreeSlot(s)
       /\ reqs' = [reqs EXCEPT ![s] = NewReq(id, FALSE, "lib", HasManualUpdate(id))]
  /\ UNCHANGED <<env, cache, updateCache, userStatusStore, last>>

\* The fetch of getChargerData reaches the handler.
Receive(s) ==
  /\ reqs[s] # Nil
  /\ reqs[s].pc = "sent"
  /\ Handle(s, reqs[s])
  /\ UNCHANGED <<env, nops, updateCache, userStatusStore>>

\* import('puppeteer') and puppeteer.launch succeed.
LaunchOk(s) ==
  /\ reqs[s] # Nil
  /\ reqs[s].pc = "launch"
  /\ reqs' = [reqs EXCEPT ![s].pc = "page", ![s].browser = "open"]
  /\ UNCHANGED <<env, nops, cache, updateCache, userStatusStore, last>>

\* import('puppeteer') or puppeteer.launch throws: no browser exists.
LaunchFails(s) ==
  /\ reqs[s] # Nil
  /\ reqs[s].pc = "launch"
  /\ Fallback(s, reqs[s], FALSE, "Failed to launch the browser process")
  /\ UNCHANGED <<env, nops, updateCache, userStatusStore>>

\* Mutant of PageOk: the response is stored under one key for every id.
PageOkOneKey(s, page) ==
  /\ reqs[s] # Nil
  /\ reqs[s].pc = "page"
  /\ LET response == ScrapeResponse(reqs[s].id, Evaluate(page), now)
     IN  /\ cache' = [cache EXCEPT ![KnownId] = [data |-> response, timestamp |-> now]]
         /\ reqs' = [reqs EXCEPT ![s].pc = "close", ![s].pages = @ + 1,
                                 ![s].pending = [ok |-> TRUE, body |-> response, error |-> "",
                                                 extracted |-> Evaluate(page),
                                                 page |-> page]]
  /\ UNCHANGED <<env, nops, updateCache, userStatusStore, last>>

\* Mutant of PageOk: an existing cache entry keeps its timestamp.
PageOkKeepTimestamp(s, page) ==
  /\ reqs[s] # Nil
  /\ reqs[s].pc = "page"
  /\ LET response == ScrapeResponse(reqs[s].id, Evaluate(page), now)
         entry == cache[reqs[s].id]
     IN  /\ cache' = [cache EXCEPT ![reqs[s].id] =
                        [data |-> response,
                         timestamp |-> IF entry # Nil THEN entry.timestamp ELSE now]]
         /\ reqs' = [reqs EXCEPT ![s].pc = "close", ![s].pages = @ + 1,
                                 ![s].pending = [ok |-> TRUE, body |-> response, error |-> "",
                                                 extracted |-> Evaluate(page),
                                                 page |-> page]]
  /\ UNCHANGED <<env, nops, updateCache, userStatusStore, last>>

\* newPage ... evaluate succeed: the response is built and cached (lines 176-293);
\* the return waits for browser.close() in the finally block.
PageOk(s, page) ==
  /\ reqs[s] # Nil
  /\ reqs[s].pc = "page"
  /\ LET response == ScrapeResponse(reqs[s].id, Evaluate(page), now)
     IN  /\ cache' = [cache EXCEPT ![reqs[s].id] = [data |-> response, timestamp |-> now]]
         /\ reqs' = [reqs EXCEPT ![s].pc = "close", ![s].pages = @ + 1,
                                 ![s].pending = [ok |-> TRUE, body |-> response, error |-> "",
                                                 extracted |-> Evaluate(page),
                                                 page |-> page]]
  /\ UNCHANGED <<env, nops, updateCache, userStatusStore, last>>

\* Mutant of PageFails: the exception reaches the catch block with the
\* browser left open.
PageFailsNoClose(s) ==
  /\ reqs[s] # Nil
  /\ reqs[s].pc = "page"
  /\ Fallback(s, [reqs[s] EXCEPT !.pages = @ + 1], TRUE,
              "Navigation timeout of 30000 ms exceeded")
  /\ UNCHANGED <<env, nops, updateCache, userStatusStore>>

\* goto or evaluate throws on the page opened: the finally block runs next.
PageFails(s) ==
  /\ reqs[s] # Nil
  /\ reqs[s].pc = "page"
  /\ reqs' = [reqs EXCEPT ![s].pc = "close", ![s].pages = @ + 1,
                          ![s].pending = [ok |-> FALSE, body |-> Nil,
                                          error |-> "Navigation timeout of 30000 ms exceeded",
                                          extracted |-> Nil, page |-> Nil]]
  /\ UNCHANGED <<env, nops, cache, updateCache, userStatusStore, last>>

\* browser.close() in the finally block returns: the pending return or throw
\* takes effect.
CloseOk(s) ==
  /\ reqs[s] # Nil
  /\ reqs[s].pc = "close"
  /\ LET r == [reqs[s] EXCEPT !.browser = "closed"]
     IN  IF r.pending.ok
         THEN /\ cache' = cache
              /\ Respond(s, r, "scrape", TRUE, r.pending.body)
         ELSE Fallback(s, r, TRUE, r.pending.error)
  /\ UNCHANGED <<env, nops, updateCache, userStatusStore>>

\* browser.close() throws: its exception replaces the pending return or throw.
CloseFails(s) ==
  /\ reqs[s] # Nil
  /\ reqs[s].pc = "close"
  /\ Fallback(s, [reqs[s] EXCEPT !.browser = "closeThrew"], TRUE,
              "Protocol error: Target closed")
  /\ UNCHANGED <<env, nops, updateCache, userStatusStore>>

\* --------------------------------------------- /api/update-status: handlers
\* !evseId || !status: a missing or empty field is "".
MissingFields(evseId, status) == evseId = "" \/ status = ""

\* validStatuses.includes(status)
StatusAccepted(status) == status \in validStatuses

\* The 400 and 500 answers of POST: nothing is stored.
PostRejected(evseId, status, http, body) ==
  /\ UNCHANGED <<nops, updateCache>>
  /\ last' = [op |-> "POST", seq |-> nops, id |-> evseId, status |-> status,
              parsed |-> http # 500, http |-> http, body |-> body,
              before |-> Stores, after |-> StoresAfter]

\* Lines 28-59: the entry of the id is deleted and rewritten, the record returned.
PostAccepted(evseId, status) ==
  LET updatedData == UpdatedData(evseId, status, now)
  IN  /\ nops < MaxOps
      /\ nops' = nops + 1
      /\ updateCache' = [updateCache EXCEPT ![evseId] =
                           [data |-> updatedData, timestamp |-> now]]
      /\ last' = [op |-> "POST", seq |-> nops + 1, id |-> evseId,
                  status |-> status, parsed |-> TRUE, http |-> 200,
                  body |-> With(With(updatedData, "success", TRUE),
                                "message", "Status updated successfully"),
                  before |-> Stores, after |-> StoresAfter]

\* POST /api/update-status with body {evseId, status}.
UpdateStatusPost(evseId, status) ==
  /\ UNCHANGED <<env, cache, userStatusStore, reqs>>
  /\ IF MissingFields(evseId, status)
     THEN PostRejected(evseId, status, 400, [error |-> "Missing required fields"])
     ELSE IF ~StatusAccepted(status)
     THEN PostRejected(evseId, status, 400, [error |-> "Invalid status value"])
     ELSE PostAccepted(evseId, status)

\* POST /api/update-status whose body is not JSON: request.json() throws.
UpdateStatusPostBadBody ==
  /\ UNCHANGED <<env, cache, userStatusStore, reqs>>
  /\ PostRejected("", "", 500, [error |-> "Failed to update status",
                                message |-> "Unexpected end of JSON input"])

\* GET /api/update-status?evseId=id
UpdateStatusGet(evseId) ==
  /\ UNCHANGED <<env, nops, cache, updateCache, userStatusStore, reqs>>
  /\ IF evseId = ""
     THEN MissingEvseId("update-status")
     ELSE last' = [op |-> "statusGET", seq |-> nops, id |-> evseId, http |-> 200,
                   entry |-> updateCache[evseId],
                   body |-> IF updateCache[evseId] # Nil
                            THEN With(updateCache[evseId].data, "fromCache", TRUE)
                            ELSE DefaultStatusData(evseId, now)]

\* ------------------------------------------------ GET /api/charger-info
\* The handler keeps no state; its response depends on the upstream alone.
ChargerInfoGet(evseId, up) ==
  /\ UNCHANGED <<env, nops, cache, updateCache, userStatusStore, reqs>>
  /\ IF evseId = ""
     THEN MissingEvseId("charger-info")
     ELSE LET resp == ChargerInfoResponse(evseId, up, now)
          IN  last' = [op |-> "infoGET", seq |-> nops, id |-> evseId, upstream |-> up,
                       http |-> resp.http, body |-> resp.body,
                       fetched |-> InfoFetched(evseId),
                       before |-> Stores, after |-> StoresAfter]

\* ------------------------------------------- charger-data lib: manual update
updateChargerStatus(evseId, status) ==
  /\ nops < MaxOps
  /\ nops' = nops + 1
  /\ userStatusStore' = [userStatusStore EXCEPT ![evseId] =
                           [status |-> status, lastUpdated |-> now, updatedBy |-> "user"]]
  /\ UNCHANGED <<env, cache, updateCache, reqs>>
  /\ last' = [op |-> "update", seq |-> nops + 1, id |-> evseId,
              status |-> status,
              body |-> [success |-> TRUE, evseId |-> evseId, status |-> status,
                        lastUpdated |-> toLocaleTimeString(now)],
              before |-> Stores, after |-> StoresAfter]

\* ----------------------------------------------------------- specifications
\* The steps of a request in flight.
Scrape ==
  \/ \E s \in Slots : LaunchOk(s)
  \/ \E s \in Slots : LaunchFails(s)
  \/ \E s \in Slots, page \in ServedPages : PageOk(s, page)
  \/ \E s \in Slots : PageFails(s)
  \/ \E s \in Slots : CloseOk(s)
  \/ \E s \in Slots : CloseFails(s)

\* Bodies offered to POST /api/update-status: every accepted status for every
\* id, and the rejected ones: an enum value outside the accepted list, a value
\* outside the enum, a missing status, a missing id.
PostBodies ==
  (Ids \X validStatuses)
    \cup {<<KnownId, "unknown">>, <<KnownId, "bogus">>, <<KnownId, "">>, <<"", "available">>}

\* The charger route and the clock, one request after the other.
Next ==
  \/ \E d \in TickSteps : Tick(d)
  \/ \E id \in Ids, bypass \in BOOLEAN : Idle /\ GetCharger(id, bypass)
  \/ Scrape

Spec == Init /\ [][Next]_vars

\* The write endpoint and the reads that follow a write.
NextWrite ==
  \/ \E id \in Ids : Idle /\ GetCharger(id, FALSE)
  \/ Scrape
  \/ \E b \in PostBodies : UpdateStatusPost(b[1], b[2])
  \/ UpdateStatusPostBadBody
  \/ \E id \in Ids : UpdateStatusGet(id)
  \/ \E status \in StoreStatuses : updateChargerStatus(KnownId, status)

SpecWrite == Init /\ [][NextWrite]_vars

\* The client library over the charger route.
NextLib ==
  \/ Tick(CACHE_DURATION)
  \/ \E id \in Ids : Idle /\ GetChargerDataCall(id)
  \/ \E s \in Slots : Receive(s)
  \/ Scrape
  \/ \E id \in Ids, status \in StoreStatuses : updateChargerStatus(id, status)

SpecLib == Init /\ [][NextLib]_vars

\* The charger route with requests overlapping: a request may arrive while
\* others are being handled.
NextConc ==
  \/ \E id \in Ids : GetCharger(id, FALSE)
  \/ Scrape

SpecConc == Init /\ [][NextConc]_vars

\* The charger route with requests overlapping and every way a scrape ends
\* once browser.close() returns.
NextBrowser ==
  \/ \E id \in Ids : GetCharger(id, FALSE)
  \/ \E s \in Slots : LaunchOk(s)
  \/ \E s \in Slots : LaunchFails(s)
  \/ \E s \in Slots, page \in ServedPages : PageOk(s, page)
  \/ \E s \in Slots : PageFails(s)
  \/ \E s \in Slots : CloseOk(s)

SpecBrowser == Init /\ [][NextBrowser]_vars

\* Overlapping requests for one id, every scrape succeeding, with the clock
\* advancing between their steps.
NextLww ==
  \/ GetCharger(KnownId, FALSE)
  \/ \E s \in Slots : LaunchOk(s)
  \/ \E s \in Slots, page \in ServedPages : PageOk(s, page)
  \/ \E s \in Slots : CloseOk(s)
  \/ \E d \in TickSteps : Tick(d)

SpecLww == Init /\ [][NextLww]_vars

\* Writes and reads of the two stores that hold a manually set status, with
\* the clock passing the cache lifetime; the browser cannot be launched.
OverrideWrites == {<<KnownId, "charging">>, <<KnownId, "error">>, <<OtherId, "available">>}

NextOverride ==
  \/ Tick(CACHE_DURATION)
  \/ \E id \in Ids : Idle /\ GetChargerDataCall(id)
  \/ \E s \in Slots : Receive(s)
  \/ \E s \in Slots : LaunchFails(s)
  \/ \E w \in OverrideWrites : updateChargerStatus(w[1], w[2])
  \/ \E w \in OverrideWrites : UpdateStatusPost(w[1], w[2])
  \/ \E id \in Ids : UpdateStatusGet(id)

SpecOverride == Init /\ [][NextOverride]_vars

\* The three GET routes, with and without evseId, over stores that writes and
\* reads have filled.
InfoIds == {KnownId, OtherId, ""}

NextInfo ==
  \/ \E id \in {KnownId, ""} : Idle /\ GetCharger(id, FALSE)
  \/ Scrape
  \/ UpdateStatusPost(KnownId, "charging")
  \/ \E id \in InfoIds : UpdateStatusGet(id)
  \/ \E id \in Ids, up \in InfoUpstreams : ChargerInfoGet(id, up)
  \/ ChargerInfoGet("", [kind |-> "html", html |-> NoHtml])

SpecInfo == Init /\ [][NextInfo]_vars

\* Scraping of every badge without a price and of every price list without a badge: requests without bypass at
\* one instant, every step of the scrape succeeding.
ExtractPages == { page \in Pages : page.priceTexts = <<>> \/ page.badge = NoBadge }

NextExtract ==
  \/ \E id \in Ids : Idle /\ GetCharger(id, FALSE)
  \/ \E s \in Slots : LaunchOk(s)
  \/ \E s \in Slots, page \in ExtractPages : PageOk(s, page)
  \/ \E s \in Slots : CloseOk(s)

SpecExtract == Init /\ [][NextExtract]_vars

\* The dashboard of one tab with every trigger of a refresh: mount, the
\* interval, the button; every request is answered with a record.
NextDash ==
  \/ Mount
  \/ TimerTick
  \/ ButtonClick
  \/ \E s \in RefreshSlots, evseId \in DashIds : Settle(s, evseId, "ok")
  \/ \E s \in RefreshSlots : Finish(s)

SpecDash == Init /\ [][NextDash]_vars

\* The refreshes started at mount and by the button, every request settling
\* in one of the three ways, in any order.  A request that was issued settles
\* and the continuation of a settled Promise.all runs.
NextFanout ==
  \/ Mount
  \/ ButtonClick
  \/ \E s \in RefreshSlots, evseId \in DashIds, outcome \in Outcomes : Settle(s, evseId, outcome)
  \/ \E s \in RefreshSlots : Finish(s)

SpecFanout ==
  /\ Init
  /\ [][NextFanout]_vars
  /\ \A s \in RefreshSlots, evseId \in DashIds :
       WF_vars(\E outcome \in Outcomes : Settle(s, evseId, outcome))
  /\ \A s \in RefreshSlots : WF_vars(Finish(s))

C2_WriteThenRead ==
  [][ ( /\ last.op = "POST" /\ last.http = 200
        /\ last'.op = "GET" /\ last'.id = last.id /\ ~last'.bypass
        /\ last'.after = Tag(last) )
      => ( /\ last'.body.status = last.status
           /\ "updatedBy" \in DOMAIN last'.body
           /\ last'.body.updatedBy = "user" ) ]_vars

\* C3 (cache stability), as claimed: of two consecutive GET /api/charger
\* requests for one id without bypass, the second made less than 30 s after
\* the first and after its response, the second returns the record of the first.
C3_CacheStability ==
  [][ ( /\ last.op = "GET" /\ last'.op = "GET" /\ last'.seq # last.seq
        /\ last'.id = last.id /\ ~last.bypass /\ ~last'.bypass
        /\ last'.after = Tag(last)
        /\ last'.at - last.at < 30000 )
      => last'.body = last.body ]_vars

\* C4 (cache fast path and TTL boundary): a GET /api/charger is answered from
\* the cache exactly when bypass is not set and an entry of the id exists whose
\* age is strictly below 30000 ms; then the stored record is returned, no
\* browser is launched and the entry is left as it was; otherwise a resolution
\* is performed.
C4_CacheFastPath ==
  last.op = "GET" =>
    LET hit == /\ ~last.bypass
               /\ last.entryBefore # Nil
               /\ last.at - last.entryBefore.timestamp < 30000
    IN  /\ (last.path = "cache") <=> hit
        /\ last.path = "cache" =>
             /\ last.body = last.entryBefore.data
             /\ ~last.launched
             /\ last.entryAfter = last.entryBefore
        /\ last.path # "cache" => last.path \in {"vercel", "scrape", "fallback"}

\* C4 witness: a request answered from an entry aged 29999 ms.
C4_Witness ==
  /\ last.op = "GET"
  /\ last.path = "cache"
  /\ last.at - last.entryBefore.timestamp = 29999

\* C5 (rejected writes leave state untouched), as claimed: a status write,
\* POST /api/update-status or updateChargerStatus, whose status is outside the
\* canonical enum, or whose evseId or status is missing, is rejected and
\* leaves the override store and both caches as they were, for every id.
C5_RejectedWrites ==
  /\ ( /\ last.op = "POST" /\ last.parsed
       /\ (last.id = "" \/ last.status = "" \/ last.status \notin CanonicalStatuses) )
       => /\ last.http = 400
          /\ last.after = last.before
  /\ (last.op = "update" /\ last.status \notin CanonicalStatuses)
       => /\ last.body.success = FALSE
          /\ last.after = last.before

\* C6 (accepted writes), as claimed: a POST /api/update-status with an evseId
\* and a status of the canonical enum {available, charging, maintenance, error,
\* unknown} returns success = true with the requested status and evseId.
C6_AcceptedWritesClaimed ==
  ( /\ last.op = "POST" /\ last.parsed /\ last.id # ""
    /\ last.status \in {"available", "charging", "maintenance", "error", "unknown"} )
    => /\ last.http = 200
       /\ last.body.success = TRUE
       /\ last.body.status = last.status
       /\ last.body.evseId = last.id

\* C6 (accepted writes), amended: a POST /api/update-status with an evseId and
\* a status among available, charging, maintenance, error returns success =
\* true with the requested status and evseId; "unknown" is answered with 400.
C6_AcceptedWrites ==
  /\ ( /\ last.op = "POST" /\ last.parsed /\ last.id # ""
       /\ last.status \in {"available", "charging", "maintenance", "error"} )
       => /\ last.http = 200
          /\ last.body.success = TRUE
          /\ last.body.status = last.status
          /\ last.body.evseId = last.id
  /\ ( /\ last.op = "POST" /\ last.parsed /\ last.id # ""
       /\ last.status = "unknown" )
       => last.http = 400

\* C6 witness: an accepted write of "maintenance".
C6_Witness ==
  /\ last.op = "POST"
  /\ last.id = OtherId
  /\ last.status = "maintenance"
  /\ last.http = 200
  /\ last.body.status = "maintenance"

\* C7 (failure fallback record), as claimed: the record returned for
\* "DE*MDS*E006234" when the fetch path fails has isRealTime = false, a
\* non-empty error field and the same status on every failed call.
C7_FallbackRecord ==
  (last.op = "GET" /\ last.id = "DE*MDS*E006234" /\ last.path = "fallback")
    => /\ last.body.isRealTime = FALSE
       /\ "error" \in DOMAIN last.body
       /\ last.body.error # ""
       /\ last.body.status = "maintenance"

\* C8 (resolution never raises), as claimed: every GET /api/charger and every
\* getChargerData call ends with a record whose status is one of available,
\* charging, maintenance, error, unknown.
C8_NeverRaises ==
  last.op \in {"GET", "lib"}
    => /\ "status" \in DOMAIN last.body
       /\ last.body.status \in {"available", "charging", "maintenance", "error", "unknown"}

\* C9 (cache write on every resolution), as claimed: when a GET /api/charger
\* that performed a resolution returns, the cache entry of the id holds the
\* returned record, stamped with the time of the resolution.
C9_CacheWrite ==
  (last.op = "GET" /\ last.path # "cache")
    => /\ last.entryAfter # Nil
       /\ last.entryAfter.data = last.body
       /\ last.entryAfter.timestamp = last.body.lastUpdated

\* C10 (invalidate on write), as claimed: the read that follows an accepted
\* POST /api/update-status for id is not answered with an entry cached before
\* the write: GET /api/charger without bypass does not serve the entry its
\* cache held at the write, and GET /api/update-status serves the record the
\* write stored.
C10_InvalidateOnWrite ==
  [][ ( /\ last.op = "POST" /\ last.http = 200 /\ last'.id = last.id )
      => /\ ( /\ last'.op = "GET" /\ ~last'.bypass /\ last'.after = Tag(last)
              /\ last.before.cache[last.id] # Nil )
              => ~( /\ last'.path = "cache"
                    /\ last'.entryBefore = last.before.cache[last.id] )
         /\ last'.op = "statusGET"
              => last'.entry = last.after.updateCache[last.id] ]_vars

\* C11 (badge class mapping): when a status badge with text is found, its
\* class decides the status: bg-success gives available, else bg-warning gives
\* maintenance, else bg-danger gives error, else bg-secondary gives charging,
\* whatever the badge text; getBadgeStatusMap computes the same status.
C11_BadgeClassMapping ==
  ( /\ last.op = "GET" /\ last.path = "scrape"
    /\ last.extracted.hasText /\ last.extracted.statusText # "" )
    => LET cls == last.extracted.statusClass
           expected ==
             IF "bg-success" \in cls THEN "available"
             ELSE IF "bg-warning" \in cls THEN "maintenance"
             ELSE IF "bg-danger" \in cls THEN "error"
             ELSE IF "bg-secondary" \in cls THEN "charging"
             ELSE "none"
       IN  expected # "none"
             => /\ last.body.status = expected
                /\ getBadgeStatusMap(cls, last.extracted.statusText) = expected

\* C11 witness: a badge of class bg-secondary with text Besetzt was scraped.
C11_Witness ==
  /\ last.op = "GET" /\ last.path = "scrape"
  /\ "bg-secondary" \in last.extracted.statusClass
  /\ last.extracted.statusText = "Besetzt"
  /\ last.body.status = "charging"

\* C12 (per-id cache isolation): for any interleaving of GET /api/charger
\* requests, a step changes the cache entry of an id only when it is a step of
\* a request for that id, and every entry stored under key k holds a record
\* whose evseId is k.
C12_CacheIsolation ==
  /\ [](\A k \in Ids : cache[k] # Nil => cache[k].data.evseId = k)
  /\ [][ \A b \in Ids :
           cache'[b] # cache[b]
             => \/ \E s \in Slots : /\ reqs[s] # Nil /\ reqs[s].id = b
                                    /\ reqs[s].pc = "page" /\ reqs'[s] # reqs[s]
                \/ /\ last' # last /\ last'.op = "GET" /\ last'.id = b
                   /\ last'.path = "vercel" ]_vars

\* C12 witness: two overlapping requests for distinct ids have both written
\* their entries and neither has returned.
C12_Witness ==
  /\ reqs[1] # Nil /\ reqs[2] # Nil
  /\ reqs[1].id # reqs[2].id
  /\ reqs[1].pc = "close" /\ reqs[2].pc = "close"
  /\ reqs[1].pending.ok /\ reqs[2].pending.ok
  /\ cache[reqs[1].id].data = reqs[1].pending.body
  /\ cache[reqs[2].id].data = reqs[2].pending.body

\* C13 (missing id): a GET /api/charger, GET /api/update-status or GET
\* /api/charger-info without evseId is answered with 400 and an error, starts
\* no request or browser, and leaves the caches and the override store as
\* they were.
C13_MissingId ==
  last.op = "GET400"
    => /\ last.http = 400
       /\ "error" \in DOMAIN last.body
       /\ ~last.started
       /\ last.after = last.before

\* C13 witness: GET /api/charger without evseId answered while its cache holds
\* an entry.
C13_Witness ==
  /\ last.op = "GET400" /\ last.route = "charger"
  /\ last.before.cache[KnownId] # Nil

\* C14 (isRealTime is true only for live extraction), as claimed: a record
\* GET /api/charger builds without any page fetch attempt (the Vercel path)
\* has isRealTime = false, and a record it builds with isRealTime = true was
\* built after a browser was launched for a page fetch.
C14_IsRealTime ==
  (last.op = "GET" /\ last.path # "cache")
    => /\ last.path = "vercel" => last.body.isRealTime = FALSE
       /\ last.body.isRealTime = TRUE => last.launched

\* C15 (statusText follows status), as claimed: every record served by GET
\* /api/charger and by getChargerData carries the statusText that is the label
\* of its status.
C15_StatusTextFollowsStatus ==
  last.op \in {"GET", "lib"}
    => /\ "statusText" \in DOMAIN last.body
       /\ last.body.statusText =
            (CASE last.body.status = "available"   -> "Verfügbar"
               [] last.body.status = "charging"    -> "Besetzt"
               [] last.body.status = "maintenance" -> "Wartung"
               [] last.body.status = "error"       -> "Fehler"
               [] OTHER                            -> "Unbekannt")

\* C16 (override overlay frame), as claimed: the record getChargerData returns
\* under an override carries the same location, operator, address, plugType,
\* power and price as the record it returns on the same fetch outcome without
\* an override, on the success path and on the failure path.
C16_OverlayFrame ==
  (last.op = "lib" /\ last.storeAtCall # Nil)
    => \A f \in {"location", "operator", "address", "plugType", "power", "price"} :
         /\ f \in DOMAIN last.body <=> f \in DOMAIN last.system
         /\ f \in DOMAIN last.body => last.body[f] = last.system[f]

C18_ChargingTokens ==
  ( /\ last.op = "GET" /\ last.path = "scrape"
    /\ last.extracted.hasText /\ last.extracted.statusText # "" )
    => LET cls == last.extracted.statusClass
           text == last.extracted.statusText
       IN  ( /\ cls \cap {"bg-success", "bg-warning", "bg-danger"} = {}
             /\ \/ cls \cap {"bg-secondary", "bg-primary", "bg-info"} # {}
                \/ text \in {"Occupied", "Besetzt", "BESETZT"} )
             => last.body.status = "charging"

\* C19 (text fallback), as claimed: in GET /api/charger a found badge whose
\* class holds no recognised status token gets its status from the keywords in
\* its text: verfügbar or free give available, wartung gives maintenance,
\* fehler gives error, besetzt or occupied give charging.
C19_TextFallback ==
  ( /\ last.op = "GET" /\ last.path = "scrape"
    /\ last.extracted.hasText
    /\ last.extracted.statusClass = {"badge", "rounded-pill"} )
    => LET text == last.extracted.statusText
       IN  /\ text \in {"Verfügbar", "Free"} => last.body.status = "available"
           /\ text = "Wartung" => last.body.status = "maintenance"
           /\ text = "Fehler" => last.body.status = "error"
           /\ text \in {"Besetzt", "BESETZT", "Occupied"} => last.body.status = "charging"

\* C20 (ambiguous extraction yields unknown), as claimed: when the page was
\* fetched and no badge is found, or the badge has no class token and no
\* keyword, GET /api/charger returns status unknown with statusText Unbekannt
\* and no error.
C20_AmbiguousIsUnknown ==
  ( /\ last.op = "GET" /\ last.path = "scrape"
    /\ \/ ~last.extracted.hasText
       \/ /\ last.extracted.statusClass = {"badge", "rounded-pill"}
          /\ last.extracted.statusText = "Bereit" )
    => /\ last.body.status = "unknown"
       /\ last.body.statusText = "Unbekannt"
       /\ "error" \notin DOMAIN last.body

\* C21 (interstitial page equals fetch failure), as claimed: in GET
\* /api/charger-info, for HTML that contains "Adhoc Payment" and not "AUG.
\* PRIEN", no badge is read and the response has the HTTP status, the status
\* value, the simulated flag and the presence of the error field of the
\* response to a failed fetch for the same charger.
C21_InterstitialIsFetchFailure ==
  ( /\ last.op = "infoGET" /\ last.fetched
    /\ last.upstream.kind = "html"
    /\ last.upstream.html.adhoc /\ ~last.upstream.html.prien )
    => LET failure == ChargerInfoResponse(last.id, [kind |-> "secondThrows", html |-> NoHtml], now)
       IN  /\ last.body.status = "unknown"
           /\ last.http = failure.http
           /\ last.body.status = failure.body.status
           /\ last.body.isSimulated = failure.body.isSimulated
           /\ ("error" \in DOMAIN last.body) <=> ("error" \in DOMAIN failure.body)

\* C22 (upstream failure is absorbed), as claimed: in GET /api/charger-info
\* with an evseId, an upstream request that throws or returns a non-success
\* status, or an id absent from the registry, gives a 200 response whose
\* record has a status of the canonical enum and an error field.
C22_UpstreamFailureAbsorbed ==
  ( /\ last.op = "infoGET"
    /\ \/ ~last.fetched
       \/ last.upstream.kind \in {"initialThrows", "initialNotOk", "secondThrows", "secondNotOk"} )
    => /\ last.http = 200
       /\ "status" \in DOMAIN last.body
       /\ last.body.status \in {"available", "charging", "maintenance", "error", "unknown"}
       /\ "error" \in DOMAIN last.body

\* C23 (price precedence): in GET /api/charger the returned price is the text
\* of the first candidate element, in scan order, that contains "€"; when no
\* candidate contains it, the price is the registry default of the charger;
\* every list of candidates lets the request return its scraped record.
C23_PricePrecedence ==
  (last.op = "GET" /\ last.page # Nil)
    => LET texts == last.page.priceTexts
           euro == {"0,55 €/kWh", "0,60 €/kWh"}
           hits == { i \in 1..Len(texts) : texts[i] \in euro }
       IN  /\ last.path = "scrape"
           /\ hits # {} =>
                \E i \in hits : /\ \A j \in hits : i <= j
                                /\ last.body.preis = texts[i]
           /\ hits = {} => last.body.preis = "0,49 €/kWh"

\* A scraped record whose page had two candidates with "€", the first one
\* not the first candidate, and one whose page had candidates without "€".
C23_Witness ==
  /\ last.op = "GET" /\ last.page # Nil /\ last.path = "scrape"
  /\ last.page.priceTexts = <<"", "Tarif", "0,55 €/kWh", "0,60 €/kWh">>
  /\ last.body.preis = "0,55 €/kWh"
  /\ \E id \in Ids : /\ cache[id] # Nil
                     /\ cache[id].data.preis = "0,49 €/kWh"
                     /\ id # last.id

\* C24 (defaults for unknown ids), as claimed: a record GET /api/charger
\* returns for an id that is not in the registry has a location label built
\* from the final "*"-separated segment of the id, the default plug type,
\* power and price unless a price was scraped, on the success path and on the
\* failure path alike.
C24_UnknownIdDefaults ==
  (last.op = "GET" /\ last.http = 200 /\ last.id \notin DOMAIN CHARGER_DATA)
    => /\ last.body.location \in
            { label \o LastSegment(last.id) : label \in {"Charger ", "Ladestation ", ""} }
       /\ last.body.steckertyp = "Typ 2" /\ last.body.plugType = "Typ 2"
       /\ last.body.leistung = "22 kW" /\ last.body.power = "22 kW"
       /\ last.body.preis \in {"0,49 €/kWh", "0,55 €/kWh", "0,60 €/kWh"}

\* C24 (defaults for unknown ids), amended: a record GET /api/charger returns
\* for an id that is not in the registry has the location label "Charger "
\* followed by the whole id, the default plug type and power, and the default
\* price unless a price was scraped; the failure path uses the default price,
\* and the success path and the failure path use the same defaults.
C24_UnknownIdDefaultsWholeId ==
  (last.op = "GET" /\ last.http = 200 /\ last.id \notin DOMAIN CHARGER_DATA)
    => /\ last.body.location = "Charger " \o last.id
       /\ last.body.steckertyp = "Typ 2" /\ last.body.plugType = "Typ 2"
       /\ last.body.leistung = "22 kW" /\ last.body.power = "22 kW"
       /\ last.body.address = "Prien am Chiemsee, 83209"
       /\ last.body.preis \in {"0,49 €/kWh", "0,55 €/kWh", "0,60 €/kWh"}
       /\ last.path = "fallback" => last.body.preis = "0,49 €/kWh"

\* The failure path served an unknown id whose scraped record is in the cache.
C24_Witness ==
  /\ last.op = "GET" /\ last.id = OtherId /\ last.path = "fallback"
  /\ last.body.location = "Charger DE*XYZ*E7"
  /\ cache[OtherId] # Nil
  /\ cache[OtherId].data.location = last.body.location
  /\ cache[OtherId].data.leistung = last.body.leistung

C26_FallbackStatusHashEveryId ==
  (last.op = "GET" /\ last.path = "fallback")
    => LET statuses == <<"available", "charging", "maintenance", "error">>
           h == SumCodes(Chars(last.id))
       IN  /\ last.body.status = statuses[(h % 4) + 1]
           /\ last.body.status # "unknown"

\* C26 (deterministic fallback status), amended: the status of a fallback
\* record is a function of the id alone: "maintenance" for DE*MDS*E006234,
\* "available" for the other three registry ids, and statuses[h mod 4] for
\* every other id (h = 612 for DE*XYZ*E7); it is never unknown, and two
\* consecutive fallback records of one id have the same status.
C26_FallbackStatus ==
  /\ [] ( (last.op = "GET" /\ last.path = "fallback")
            => /\ last.body.status =
                    (CASE last.id = "DE*MDS*E006234" -> "maintenance"
                       [] last.id \in {"DE*MDS*E006198", "DE*PRI*E000001", "DE*PRI*E000002"}
                            -> "available"
                       [] OTHER -> <<"available", "charging", "maintenance", "error">>
                                     [(SumCodes(Chars(last.id)) % 4) + 1])
               /\ last.id = "DE*XYZ*E7" =>
                    SumCodes(Chars(last.id)) = 612 /\ last.body.status = "available"
               /\ last.body.status \in {"available", "charging", "maintenance", "error"} )
  /\ [][ ( /\ last.op = "GET" /\ last.path = "fallback"
           /\ last'.op = "GET" /\ last'.path = "fallback"
           /\ last'.id = last.id )
         => last'.body.status = last.body.status ]_vars

\* A fallback record for the registry id whose hash names another status,
\* after an earlier fallback record.
C26_Witness ==
  /\ last.op = "GET" /\ last.path = "fallback" /\ last.id = "DE*MDS*E006234"
  /\ last.body.status = "maintenance"
  /\ SumCodes(Chars(last.id)) % 4 = 1
  /\ last.after.op = "GET"

\* C27 (last write wins on one key): with GET /api/charger resolutions of one
\* id overlapping, every change of the cache entry of the id is the write of
\* one resolution, which stores its own record together with the time of the
\* write, so the entry is always the pair of the latest write and never a mix
\* of two resolutions; a record served from the cache is the record of the
\* entry and is less than CACHE_DURATION = 30 s old, measured from its write.
C27_LastWriteWins ==
  /\ [] ( \A id \in Ids : cache[id] # Nil =>
            /\ cache[id].data.evseId = id
            /\ cache[id].data.lastUpdated = cache[id].timestamp )
  /\ [] ( (last.op = "GET" /\ last.path = "cache")
            => /\ last.entryBefore # Nil
               /\ last.body = last.entryBefore.data
               /\ last.at - last.entryBefore.timestamp < 30000 )
  /\ [][ \A id \in Ids : cache'[id] # cache[id] =>
           /\ cache'[id].timestamp = now
           /\ \/ \E s \in Slots :
                   /\ reqs[s] # Nil /\ reqs[s].id = id /\ reqs[s].pc = "page"
                   /\ reqs'[s].pc = "close" /\ reqs'[s].pending.ok
                   /\ cache'[id].data = reqs'[s].pending.body
              \/ /\ last'.op = "GET" /\ last'.path = "vercel" /\ last'.id = id
                 /\ last' # last
                 /\ cache'[id].data = last'.body ]_vars

\* Two overlapping resolutions have completed; the one that wrote first
\* answered last, and the entry is the pair of the later write.
C27_Witness ==
  /\ Idle
  /\ last.op = "GET" /\ last.path = "scrape"
  /\ cache[last.id] # Nil
  /\ cache[last.id].timestamp > last.body.lastUpdated
  /\ cache[last.id].data.lastUpdated = cache[last.id].timestamp
  /\ cache[last.id].data.status # last.body.status

\* C28 (dashboard fan-out isolation): when a fetchChargers refresh ends, the
\* chargers list has exactly one entry per id of CHARGER_IDS, in that order;
\* the entry of a request that failed (non-OK response or thrown error) is a
\* placeholder with isRealTime = false and the entries of the others are the
\* records received; refreshing and loading are false at that moment; and
\* every refresh that was started eventually ends so.
C28_FanoutIsolation ==
  /\ [] ( home.ev.op = "end" =>
            /\ Len(home.chargers) = 4
            /\ \A i \in 1..4 :
                 LET id == <<"DE*MDS*E006234", "DE*MDS*E006198",
                             "DE*PRI*E000001", "DE*PRI*E000002">>[i]
                     entry == home.chargers[i]
                 IN  /\ entry.evseId = id
                     /\ home.ev.outcomes[id] = "ok" =>
                          entry.isRealTime /\ "error" \notin DOMAIN entry
                     /\ home.ev.outcomes[id] \in {"notOk", "throws"} =>
                          /\ ~entry.isRealTime
                          /\ entry.status = "error"
                          /\ "error" \in DOMAIN entry
            /\ ~home.refreshing
            /\ ~home.loading )
  /\ \A s \in RefreshSlots :
       (home.fanouts[s] # Nil)
         ~> (home.ev.op = "end" /\ home.ev.slot = s /\ ~home.refreshing /\ ~home.loading)

\* A refresh started by the button has ended with one request answered
\* non-OK, one rejected and two answered with records.
C28_Witness ==
  /\ home.ev.op = "end" /\ home.ev.trigger = "button"
  /\ home.ev.outcomes["DE*MDS*E006234"] = "notOk"
  /\ home.ev.outcomes["DE*MDS*E006198"] = "ok"
  /\ home.ev.outcomes["DE*PRI*E000001"] = "throws"
  /\ home.ev.outcomes["DE*PRI*E000002"] = "ok"
  /\ Len(home.chargers) = 4
  /\ ~home.chargers[1].isRealTime /\ home.chargers[2].isRealTime
  /\ ~home.refreshing /\ ~home.loading

\* C29 (single refresh in flight), as claimed: fetchChargers fan-outs never
\* overlap: a trigger that arrives while a refresh is in flight, the interval
\* registered at mount included, issues no requests.
C29_SingleRefreshInFlight ==
  /\ Cardinality(InFlight(home)) <= 1
  /\ home.ev.op = "start" => home.ev.inFlight = 0

\* C30 (bypass only on initial load), as claimed: a refresh sends bypass=true
\* only while loading is true; a refresh started after the first one has
\* completed, by the interval or by the button, sends its requests without
\* bypass.
C30_BypassOnlyOnInitialLoad ==
  /\ home.ev.op = "start" => (home.ev.bypass => home.ev.loading)
  /\ \A s \in RefreshSlots :
       (home.fanouts[s] # Nil /\ home.fanouts[s].seq > 1) => ~home.fanouts[s].bypass

====
